---------------------------- MODULE Spec2Model ----------------------------
(***************************************************************************)
(* A model of checktools/tools/parseyu.py: the RowData objects and the     *)
(* HirarchicalTableParser that builds a forest of rows from indented       *)
(* table lines.                                                            *)
(*                                                                         *)
(* Objects live in a heap: a sequence of row records, a row's identity     *)
(* being its index.  None is 0.  A dict is a function from string keys to  *)
(* tagged values; a value that is another row's data dict is a reference   *)
(* ("ref") to that row, as it is in Python, where as_dict() returns and    *)
(* stores the dict objects themselves.                                     *)
(*                                                                         *)
(* A line of text is a record [raw, nums]: raw is the text before the      *)
(* numeric columns as a sequence of tokens (a one-character whitespace     *)
(* token or a word), nums the values of the run of numeric columns that    *)
(* follows it.  Floats are modelled by integers.                           *)
(***************************************************************************)
EXTENDS Integers, Sequences, FiniteSets, TLC

VARIABLES heap, rows, row_tree, pc, err, nlines, depths, last, ret, nops,
          header, body, timings, parents_default, calls

vars == <<heap, rows, row_tree, pc, err, nlines, depths, last, ret, nops,
          header, body, timings, parents_default, calls>>

\* ------------------------------------------------------------- bounds
\* Rows one parser creates.
MaxRows == 3
\* Rows constructed in one Row-API session.
MaxApiRows == 2
\* Blank or non-matching lines fed to one parse_lines call.
MaxSkips == 1
\* Whitespace characters in front of a name.
MaxLead == 6
\* Row-API calls in one Row-API session.
MaxOps == 3

\* ------------------------------------------------------------ helpers
None == 0

\* An object that is not a RowData instance (a str, a float, ...).
NonRow == -1

Last(s) == s[Len(s)]

Range(s) == {s[i] : i \in 1..Len(s)}

EmptyDict == [k \in {} |-> [tag |-> "num", v |-> 0]]

Num(x) == [tag |-> "num", v |-> x]

Ref(r) == [tag |-> "ref", v |-> r]

\* dict.update: the entries of e replace and extend those of d.
DictUpdate(d, e) ==
  [k \in DOMAIN d \cup DOMAIN e |-> IF k \in DOMAIN e THEN e[k] ELSE d[k]]

IsRow(h, x) == x \in DOMAIN h

\* ------------------------------------------------------------ RowData
\* str.lower on the keys and names the model uses.
Lower(s) ==
  CASE s = "Max" -> "max"
    [] s = "Name" -> "name"
    [] s = "A" -> "a"
    [] s = "B" -> "b"
    [] s = "A B" -> "a b"
    [] OTHER -> s

\* Names hasattr finds on a RowData under construction through its class:
\* the methods, and the property that reads no instance field yet unset.
ClassAttrs ==
  {"set_child_parent_relation", "has_parent", "has_children",
   "get_child_depth", "get_parents", "add_child", "as_dict"}

\* The properties: hasattr runs their getter, which fails on the still
\* missing _parent / _children, so hasattr is False and setattr then fails
\* with an AttributeError.
Properties == {"children", "child_names", "child_dict", "parent"}

RECURSIVE InitAttrs(_, _, _)
\* The loop of __init__ over data.items(), keys being the key order:
\* [ok, error, attrs].
InitAttrs(keys, data, attrs) ==
  IF keys = <<>> THEN [ok |-> TRUE, error |-> "", attrs |-> attrs]
  ELSE LET key == Lower(Head(keys)) IN
       IF key \in {"name", "data"} \cup ClassAttrs \cup DOMAIN attrs
       THEN [ok |-> FALSE, error |-> "ValueError", attrs |-> attrs]
       ELSE IF key \in Properties
       THEN [ok |-> FALSE, error |-> "AttributeError", attrs |-> attrs]
       ELSE InitAttrs(Tail(keys), data,
                      DictUpdate(attrs, [k \in {key} |-> data[Head(keys)]]))

\* RowData(name, **data): [ok, error, row].  A keyword `name` collides
\* with the parameter and fails the call itself.
NewRowData(name, keys, data) ==
  LET a == IF "name" \in Range(keys)
           THEN [ok |-> FALSE, error |-> "TypeError", attrs |-> EmptyDict]
           ELSE InitAttrs(keys, data, EmptyDict)
  IN
  [ok |-> a.ok, error |-> a.error,
   row |-> [name |-> name, data |-> data, attrs |-> a.attrs,
            parent |-> None, children |-> <<>>]]

\* The setter without its first guard: a set parent is overwritten.
SetParentAgain(h, self, parent) ==
  IF ~IsRow(h, parent)
  THEN [h |-> h, error |-> "parent not a RowData"]
  ELSE IF self = h[parent].parent
  THEN [h |-> h, error |-> "circular"]
  ELSE [h |-> [h EXCEPT ![self].parent = parent], error |-> ""]

\* The parent setter: [h, error], error "" on success.
SetParent(h, self, parent) ==
  IF h[self].parent # None
  THEN [h |-> h, error |-> "parent set twice"]
  ELSE IF ~IsRow(h, parent)
  THEN [h |-> h, error |-> "parent not a RowData"]
  ELSE IF self = h[parent].parent
  THEN [h |-> h, error |-> "circular"]
  ELSE [h |-> [h EXCEPT ![self].parent = parent], error |-> ""]

\* add_child with the membership test the other way round: a guard
\* against adding a child twice.
AddChildDuplicateGuard(h, self, child) ==
  IF ~IsRow(h, child)
  THEN [h |-> h, error |-> "child not a RowData"]
  ELSE IF child \in Range(h[self].children)
  THEN [h |-> h, error |-> "circular"]
  ELSE [h |-> [h EXCEPT ![self].children = Append(@, child)], error |-> ""]

\* add_child: [h, error].
AddChild(h, self, child) ==
  IF ~IsRow(h, child)
  THEN [h |-> h, error |-> "child not a RowData"]
  ELSE IF self \in Range(h[child].children)
  THEN [h |-> h, error |-> "circular"]
  ELSE [h |-> [h EXCEPT ![self].children = Append(@, child)], error |-> ""]

\* The relation set on the child's side only: add_child is left out.
SetRelationParentOnly(h, child, parent) == SetParent(h, child, parent)

\* set_child_parent_relation: the setter, then add_child; a raise of the
\* first statement skips the second.
SetChildParentRelation(h, child, parent) ==
  LET s == SetParent(h, child, parent) IN
  IF s.error # "" THEN s ELSE AddChild(s.h, parent, child)

RECURSIVE ParentsWalk(_, _, _, _)
\* The recursion of get_parents from self with the list parents: each level
\* calls its parent with a new list, [self.parent] + parents; the row
\* without parent returns the list it was called with.  A chain of more
\* links than there are rows is a cycle: the recursion does not end.
ParentsWalk(h, self, parents, n) ==
  IF n > Len(h) THEN [error |-> "RecursionError", list |-> <<>>]
  ELSE IF h[self].parent = None THEN [error |-> "", list |-> parents]
  ELSE ParentsWalk(h, h[self].parent, <<h[self].parent>> \o parents, n + 1)

\* get_parents(), the argument left to its default: dflt is the content of
\* the one list object the default is bound to.  [error, list, shared,
\* dflt]: the list returned, whether it is that very object, and the
\* object's content after the call.
get_parents(h, self, dflt) ==
  LET w == ParentsWalk(h, self, dflt, 0) IN
  [error |-> w.error, list |-> w.list,
   shared |-> w.error = "" /\ h[self].parent = None, dflt |-> dflt]

\* ------------------------------------------------ HirarchicalTableParser
\* data_col_names and subcategory_indention as get_yutiming_body_data
\* constructs the parser: four columns, a unit of two spaces.
data_col_names == <<"min", "avg", "max", "total">>

subcategory_indention == <<" ", " ">>

IsSpace(t) == t \in {" ", "\t"}

\* Characters of a token sequence (a whitespace token is one character).
RECURSIVE CharLen(_)
CharLen(s) == IF s = <<>> THEN 0 ELSE Len(Head(s)) + CharLen(Tail(s))

\* str.lstrip(chars): drop the leading tokens that are characters of chars.
RECURSIVE LStrip(_, _)
LStrip(s, chars) ==
  IF s # <<>> /\ Head(s) \in chars THEN LStrip(Tail(s), chars) ELSE s

RECURSIVE RStrip(_, _)
RStrip(s, chars) ==
  IF s # <<>> /\ Last(s) \in chars
  THEN RStrip(SubSeq(s, 1, Len(s) - 1), chars) ELSE s

\* str.strip(): leading and trailing whitespace removed.
Strip(s) == RStrip(LStrip(s, {" ", "\t"}), {" ", "\t"})

\* re.sub('\s+', ' ', name), then the tokens joined into the string.
RECURSIVE CollapseJoin(_)
CollapseJoin(s) ==
  IF s = <<>> THEN ""
  ELSE IF IsSpace(Head(s))
  THEN " " \o CollapseJoin(LStrip(s, {" ", "\t"}))
  ELSE Head(s) \o CollapseJoin(Tail(s))

\* name = re.sub('\s+', ' ', name_raw.strip())
NormName(name_raw) == CollapseJoin(Strip(name_raw))

\* The quotient rounded to the nearest integer instead of truncated.
DepthRounded(name_raw) ==
  (CharLen(name_raw) - CharLen(LStrip(name_raw, Range(subcategory_indention)))
     + CharLen(subcategory_indention) \div 2)
    \div CharLen(subcategory_indention)

\* depth = int((len(name_raw) - len(name_raw.lstrip(ind))) / len(ind))
Depth(name_raw) ==
  (CharLen(name_raw) - CharLen(LStrip(name_raw, Range(subcategory_indention))))
    \div CharLen(subcategory_indention)

\* `if not line`: the empty string.
IsEmptyLine(line) == line.raw = <<>> /\ line.nums = <<>>

\* row_regex.search(line): the lazy name group, then exactly one numeric
\* group per data column; fewer numeric columns in a row give no match.
RegexMatches(line) == Len(line.nums) >= Len(data_col_names)

\* {n: d for n, d in zip(self.data_col_names, data)}
ZipData(nums) ==
  [k \in Range(data_col_names) |->
     Num(nums[CHOOSE i \in 1..Len(data_col_names) : data_col_names[i] = k])]

\* row_tree = [] instead of None: the first row is checked like any other.
NoTreeEmptyList == [isNone |-> FALSE, list |-> <<>>]

\* The ancestor stack: None before the first matched row of a call.
NoTree == [isNone |-> TRUE, list |-> <<>>]

Tree(l) == [isNone |-> FALSE, list |-> l]

\* The level check off by one: a row one level below the stack's last entry
\* counts as a skipped level.
LevelSkippedOffByOne(rt, depth) == Len(rt.list) <= depth

\* `elif len(row_tree) < depth`
LevelSkipped(rt, depth) == Len(rt.list) < depth

\* The slice off by one: the stack keeps the entry at index depth.
TruncateOneMore(list, depth) ==
  SubSeq(list, 1, IF depth + 1 < Len(list) THEN depth + 1 ELSE Len(list))

\* row_tree[:depth]
Truncate(list, depth) ==
  SubSeq(list, 1, IF depth < Len(list) THEN depth ELSE Len(list))

\* The state of a parse_lines call: the parser's heap and rows, the local
\* row_tree, and the error raised ("" while none is).
ParseState(h, rs, rt, e) == [heap |-> h, rows |-> rs, row_tree |-> rt, error |-> e]

\* The row attached to the last entry of the stack as it was, not of the
\* stack cut to the row's depth.
PlaceRowUnderOldLast(st, row, depth) ==
  IF st.row_tree.isNone
  THEN [st EXCEPT !.row_tree = Tree(<<row>>)]
  ELSE IF LevelSkipped(st.row_tree, depth)
  THEN [st EXCEPT !.error = "skip"]
  ELSE LET cut == Truncate(st.row_tree.list, depth) IN
       IF cut = <<>>
       THEN [st EXCEPT !.row_tree = Tree(<<row>>)]
       ELSE LET rel == SetChildParentRelation(st.heap, row, Last(st.row_tree.list)) IN
            IF rel.error # ""
            THEN ParseState(rel.h, st.rows, Tree(cut), rel.error)
            ELSE ParseState(rel.h, st.rows, Tree(Append(cut, row)), "")

\* The arguments of set_child_parent_relation swapped: the stack's last
\* entry is made the child of the new row.
PlaceRowSwapped(st, row, depth) ==
  IF st.row_tree.isNone
  THEN [st EXCEPT !.row_tree = Tree(<<row>>)]
  ELSE IF LevelSkipped(st.row_tree, depth)
  THEN [st EXCEPT !.error = "skip"]
  ELSE LET cut == Truncate(st.row_tree.list, depth) IN
       IF cut = <<>>
       THEN [st EXCEPT !.row_tree = Tree(<<row>>)]
       ELSE LET rel == SetChildParentRelation(st.heap, Last(cut), row) IN
            IF rel.error # ""
            THEN ParseState(rel.h, st.rows, Tree(cut), rel.error)
            ELSE ParseState(rel.h, st.rows, Tree(Append(cut, row)), "")

\* The depth policy of the loop body: st holds the row already appended.
PlaceRow(st, row, depth) ==
  IF st.row_tree.isNone
  THEN [st EXCEPT !.row_tree = Tree(<<row>>)]
  ELSE IF LevelSkipped(st.row_tree, depth)
  THEN [st EXCEPT !.error = "skip"]
  ELSE LET cut == Truncate(st.row_tree.list, depth) IN
       IF cut = <<>>
       THEN [st EXCEPT !.row_tree = Tree(<<row>>)]
       ELSE LET rel == SetChildParentRelation(st.heap, row, Last(cut)) IN
            IF rel.error # ""
            THEN ParseState(rel.h, st.rows, Tree(cut), rel.error)
            ELSE ParseState(rel.h, st.rows, Tree(Append(cut, row)), "")

\* The depth checked before the row is appended to rows.
ParseRowCheckFirst(st, line) ==
  LET made == NewRowData(NormName(line.raw), data_col_names, ZipData(line.nums))
      row == Len(st.heap) + 1
  IN IF ~made.ok
     THEN [st EXCEPT !.error = made.error]
     ELSE IF ~st.row_tree.isNone /\ LevelSkipped(st.row_tree, Depth(line.raw))
     THEN [st EXCEPT !.error = "skip"]
     ELSE PlaceRow(ParseState(Append(st.heap, made.row), Append(st.rows, row),
                              st.row_tree, ""),
                   row, Depth(line.raw))

\* The loop body for a matched line: the row is constructed and appended
\* to rows, then placed.
ParseRow(st, line) ==
  LET made == NewRowData(NormName(line.raw), data_col_names, ZipData(line.nums))
      row == Len(st.heap) + 1
  IN IF ~made.ok
     THEN [st EXCEPT !.error = made.error]
     ELSE PlaceRow(ParseState(Append(st.heap, made.row), Append(st.rows, row),
                              st.row_tree, ""),
                   row, Depth(line.raw))

\* A blank line taken as the end of a block: it resets the ancestor stack.
LoopBodyBlankResets(st, line) ==
  IF IsEmptyLine(line) THEN [st EXCEPT !.row_tree = NoTree]
  ELSE IF ~RegexMatches(line) THEN st
  ELSE ParseRow(st, line)

\* One iteration of the loop of parse_lines.
LoopBody(st, line) ==
  IF IsEmptyLine(line) THEN st
  ELSE IF ~RegexMatches(line) THEN st
  ELSE ParseRow(st, line)

RECURSIVE ParseLoop(_, _)
\* The loop of parse_lines over lines, left at the first raise.
ParseLoop(st, lines) ==
  IF lines = <<>> \/ st.error # "" THEN st
  ELSE ParseLoop(LoopBody(st, Head(lines)), Tail(lines))

\* parse_lines(lines) on a parser with heap h and rows rs.
parse_lines(h, rs, lines) == ParseLoop(ParseState(h, rs, NoTree, ""), lines)

\* The last row of rs that bears name n.
LastNamed(h, rs, n) ==
  LET i == CHOOSE j \in 1..Len(rs) :
             /\ h[rs[j]].name = n
             /\ \A k \in (j + 1)..Len(rs) : h[rs[k]].name # n
  IN rs[i]

\* child_dict, and the comprehension of as_dict, by key: a later child
\* replaces an earlier one of the same name.
child_dict(h, r, n) == LastNamed(h, h[r].children, n)

child_names(h, r) == [i \in 1..Len(h[r].children) |-> h[h[r].children[i]].name]

\* as_dict without the recursion: the children's data dicts are stored as
\* they are.
AsDictShallow(h, r) ==
  [h EXCEPT ![r].data =
     DictUpdate(@, [n \in Range(child_names(h, r)) |-> Ref(child_dict(h, r, n))])]

RECURSIVE AsDictHeap(_, _)
RECURSIVE AsDictChildren(_, _)
\* c.as_dict() for every c of cs, in order.
AsDictChildren(h, cs) ==
  IF cs = <<>> THEN h ELSE AsDictChildren(AsDictHeap(h, Head(cs)), Tail(cs))

\* RowData.as_dict, its effect on the heap: d is self.data itself, and
\* d.update stores in it, for each child name, the dict the child returned.
AsDictHeap(h, r) ==
  LET hc == AsDictChildren(h, h[r].children)
      entries == [n \in Range(child_names(hc, r)) |-> Ref(child_dict(hc, r, n))]
  IN [hc EXCEPT ![r].data = DictUpdate(@, entries)]

RECURSIVE DictValue(_, _)
\* The nested mapping that row r's data dict denotes.
DictValue(h, r) ==
  [k \in DOMAIN h[r].data |->
     IF h[r].data[k].tag = "ref"
     THEN [tag |-> "dict", v |-> DictValue(h, h[r].data[k].v)]
     ELSE h[r].data[k]]

\* RowData.as_dict, the mapping it returns.
AsDictValue(h, r) == DictValue(AsDictHeap(h, r), r)

\* The rows without parent, in the order of rows.
RootRows(h, rs) == SelectSeq(rs, LAMBDA r : h[r].parent = None)

row_names(h, rs) ==
  [i \in 1..Len(RootRows(h, rs)) |-> h[RootRows(h, rs)[i]].name]

\* row_dict[name]: the last root that bears the name.
row_dict(h, rs, n) == LastNamed(h, RootRows(h, rs), n)

RECURSIVE AsDictNames(_, _, _)
\* self.row_dict[name].as_dict() for each name of names, in order.
AsDictNames(h, rs, names) ==
  IF names = <<>> THEN h
  ELSE AsDictNames(AsDictHeap(h, row_dict(h, rs, Head(names))), rs, Tail(names))

\* HirarchicalTableParser.as_dict, its effect on the heap.
ParserAsDictHeap(h, rs) == AsDictNames(h, rs, row_names(h, rs))

\* HirarchicalTableParser.as_dict, the mapping it returns.
ParserAsDictValue(h, rs) ==
  LET h1 == ParserAsDictHeap(h, rs) IN
  [n \in Range(row_names(h, rs)) |->
     [tag |-> "dict", v |-> DictValue(h1, row_dict(h, rs, n))]]

\* ------------------------------------------------------------ lookups
\* The attributes hasattr finds on a constructed row: the instance fields,
\* the lower-cased data keys, the properties and the methods.
InstanceAttrs == {"name", "data", "_parent", "_children"}

HasAttr(h, r, key) ==
  key \in InstanceAttrs \cup DOMAIN h[r].attrs \cup Properties \cup ClassAttrs

\* getattr(self, key), as a tagged value.
GetAttr(h, r, key) ==
  CASE key = "name" -> [tag |-> "str", v |-> h[r].name]
    [] key = "data" -> Ref(r)
    [] key \in {"parent", "_parent"} -> [tag |-> "row", v |-> h[r].parent]
    [] key \in {"children", "_children"} -> [tag |-> "list", v |-> h[r].children]
    [] key = "child_names" -> [tag |-> "list", v |-> child_names(h, r)]
    [] key = "child_dict" ->
         [tag |-> "rowdict",
          v |-> [n \in Range(child_names(h, r)) |-> child_dict(h, r, n)]]
    [] key \in DOMAIN h[r].attrs -> h[r].attrs[key]
    [] OTHER -> [tag |-> "method", v |-> key]

\* The child lookup done before the attribute lookup.
RowGetItemChildFirst(h, r, key) ==
  IF key \in Range(child_names(h, r))
  THEN [error |-> "", val |-> [tag |-> "row", v |-> child_dict(h, r, key)]]
  ELSE IF HasAttr(h, r, key)
  THEN [error |-> "", val |-> GetAttr(h, r, key)]
  ELSE IF HasAttr(h, r, Lower(key))
  THEN [error |-> "", val |-> GetAttr(h, r, Lower(key))]
  ELSE [error |-> "IndexError", val |-> [tag |-> "none", v |-> None]]

\* RowData.__getitem__: [error, val].
RowGetItem(h, r, key) ==
  IF HasAttr(h, r, key)
  THEN [error |-> "", val |-> GetAttr(h, r, key)]
  ELSE IF HasAttr(h, r, Lower(key))
  THEN [error |-> "", val |-> GetAttr(h, r, Lower(key))]
  ELSE IF key \in Range(child_names(h, r))
  THEN [error |-> "", val |-> [tag |-> "row", v |-> child_dict(h, r, key)]]
  ELSE [error |-> "IndexError", val |-> [tag |-> "none", v |-> None]]

\* The parser's lookup over the names of all rows instead of the roots.
ParserGetItemAnyRow(h, rs, key) ==
  IF key \in {h[r].name : r \in Range(rs)}
  THEN [error |-> "", val |-> [tag |-> "row", v |-> LastNamed(h, rs, key)]]
  ELSE [error |-> "IndexError", val |-> [tag |-> "none", v |-> None]]

\* HirarchicalTableParser.__getitem__: [error, val].
ParserGetItem(h, rs, key) ==
  IF key \in Range(row_names(h, rs))
  THEN [error |-> "", val |-> [tag |-> "row", v |-> row_dict(h, rs, key)]]
  ELSE [error |-> "IndexError", val |-> [tag |-> "none", v |-> None]]

\* ------------------------------------------------- YUTIMING and summary
\* The tokens joined into the string they spell.
RECURSIVE Join(_)
Join(s) == IF s = <<>> THEN "" ELSE Head(s) \o Join(Tail(s))

RECURSIVE HeaderLoop(_, _)
\* The loop of get_yutiming_header_data over the header lines: a line with
\* a number sets d[key], key being the text before it, stripped, without
\* its trailing colons.
HeaderLoop(d, lines) ==
  IF lines = <<>> THEN d
  ELSE LET line == Head(lines)
           key == Join(RStrip(Strip(line.raw), {":"}))
       IN IF line.nums = <<>> THEN HeaderLoop(d, Tail(lines))
          ELSE HeaderLoop(DictUpdate(d, [k \in {key} |-> Num(line.nums[1])]),
                          Tail(lines))

get_yutiming_header_data(lines) == HeaderLoop(EmptyDict, lines)

\* get_yutiming_body_data: a fresh parser, parse_lines, as_dict; [error,
\* heap, rows, val], the error being that of parse_lines.
get_yutiming_body_data(lines) ==
  LET st == parse_lines(<<>>, <<>>, lines) IN
  [error |-> st.error, heap |-> st.heap, rows |-> st.rows,
   val |-> IF st.error = "" THEN ParserAsDictValue(st.heap, st.rows)
           ELSE EmptyDict]

setup_key == "Time for the setup of the model"

dyn == <<"Dyn. Computations", "Cpp dycore step", "Cpp dycore copy in",
         "Cpp dycore copy out">>

io == <<"Input", "Output">>

\* A label missing from the body counted as zero.
BodyMaxOrZero(b, label) ==
  IF label \notin DOMAIN b THEN [error |-> "", val |-> Num(0)]
  ELSE [error |-> "", val |-> b[label].v["max"]]

\* body[label]["max"]: [error, val], val a tagged value.
BodyMax(b, label) ==
  IF label \notin DOMAIN b THEN [error |-> "KeyError", val |-> Num(0)]
  ELSE [error |-> "", val |-> b[label].v["max"]]

RECURSIVE SumMax(_, _, _)
\* for result in labels: val = body[result]["max"] + val; a "max" that is
\* the mapping of a child of that name cannot be added.
SumMax(b, labels, val) ==
  IF labels = <<>> THEN [error |-> "", val |-> Num(val)]
  ELSE LET m == BodyMax(b, Head(labels)) IN
       IF m.error # "" THEN m
       ELSE IF m.val.tag # "num" THEN [error |-> "TypeError", val |-> Num(0)]
       ELSE SumMax(b, Tail(labels), m.val.v + val)

\* ------------------------------------------------------------- inputs
Spaces(k) == [i \in 1..k |-> " "]

\* The text of a row behind its indentation, with its numeric columns (a
\* fifth numeric column is left unread by the pattern).
RowBodies ==
  {[raw |-> <<"A", " ", " ", "B", " ">>, nums |-> <<1, 2, 3, 4>>],
   [raw |-> <<"A", "\t", "B", " ">>, nums |-> <<4, 3, 2, 1>>],
   [raw |-> <<"max", " ">>, nums |-> <<5, 6, 7, 8, 9>>]}

RowLines ==
  {[raw |-> Spaces(k) \o b.raw, nums |-> b.nums] :
     k \in 0..MaxLead, b \in RowBodies}

EmptyLine == [raw |-> <<>>, nums |-> <<>>]

\* Lines the pattern does not match: a line of whitespace, a row whose
\* last column is not numeric.
NoMatchLines ==
  {[raw |-> <<" ">>, nums |-> <<>>],
   [raw |-> <<" ", " ", "A", " ">>, nums |-> <<1, 2, 3>>]}

NoOp == [op |-> "none", who |-> None, arg |-> None, line |-> EmptyLine]

NoRet == [op |-> "none", who |-> None, val |-> EmptyDict]

\* ------------------------------------------- Spec: one parse_lines call
\* The state of the call in progress, as the variables hold it.
Cur == ParseState(heap, rows, row_tree, err)

Init ==
  /\ heap = <<>>
  /\ rows = <<>>
  /\ row_tree = NoTree
  /\ pc = "idle"
  /\ err = ""
  /\ nlines = 0
  /\ depths = <<>>
  /\ last = NoOp
  /\ ret = NoRet
  /\ nops = 0
  /\ calls = <<>>
  /\ parents_default = <<>>
  /\ timings = <<>>
  /\ body = EmptyDict
  /\ header = EmptyDict

\* The stack of the call before kept for the next call.
StartTreeKept(old) == old

\* `row_tree = None` at the start of parse_lines, whatever stack the call
\* before left.
StartTree(old) == NoTree

\* parse_lines is called on the fresh parser; calls notes how many rows
\* the parser held at the start of each call.
Call ==
  /\ pc = "idle"
  /\ pc' = "loop"
  /\ row_tree' = StartTree(row_tree)
  /\ calls' = Append(calls, Len(rows))
  /\ last' = [op |-> "call", who |-> None, arg |-> None, line |-> EmptyLine]
  /\ UNCHANGED <<heap, rows, err, nlines, depths, ret, nops, header, body,
                 timings, parents_default>>

\* The loop takes `line`: the variables after its body.
Take(line) ==
  LET st == LoopBody(Cur, line) IN
  /\ heap' = st.heap
  /\ rows' = st.rows
  /\ row_tree' = st.row_tree
  /\ err' = st.error
  /\ pc' = IF st.error = "" THEN "loop" ELSE "raised"
  /\ nlines' = nlines + 1

\* `if not line: continue`
SkipEmpty ==
  /\ pc = "loop"
  /\ nlines - Len(depths) < MaxSkips
  /\ \E line \in {EmptyLine} :
       /\ IsEmptyLine(line)
       /\ Take(line)
       /\ last' = [op |-> "empty", who |-> None, arg |-> None, line |-> EmptyLine]
  /\ UNCHANGED <<depths, ret, nops, header, body, timings, parents_default,
                 calls>>

\* `if m is None: continue`
SkipNoMatch ==
  /\ pc = "loop"
  /\ nlines - Len(depths) < MaxSkips
  /\ \E line \in NoMatchLines :
       /\ ~IsEmptyLine(line)
       /\ ~RegexMatches(line)
       /\ Take(line)
       /\ last' = [op |-> "nomatch", who |-> None, arg |-> None, line |-> EmptyLine]
  /\ UNCHANGED <<depths, ret, nops, header, body, timings, parents_default,
                 calls>>

\* A matched line: the row is made, appended and placed, or the call
\* raises.
MatchRow ==
  /\ pc = "loop"
  /\ Len(heap) < MaxRows
  /\ \E line \in RowLines :
       /\ ~IsEmptyLine(line)
       /\ RegexMatches(line)
       /\ Take(line)
       /\ depths' = Append(depths, Depth(line.raw))
       /\ last' = [op |-> "row", who |-> Len(heap) + 1, arg |-> Depth(line.raw),
                   line |-> line]
  /\ UNCHANGED <<ret, nops, header, body, timings, parents_default, calls>>

\* The lines are exhausted: parse_lines returns.
Return ==
  /\ pc = "loop"
  /\ pc' = "returned"
  /\ last' = [op |-> "return", who |-> None, arg |-> None, line |-> EmptyLine]
  /\ UNCHANGED <<heap, rows, row_tree, err, nlines, depths, ret, nops,
                 header, body, timings, parents_default, calls>>

Next ==
  \/ Call
  \/ SkipEmpty
  \/ SkipNoMatch
  \/ MatchRow
  \/ Return

Spec == Init /\ [][Next]_vars

\* ------------------------------------- SpecRow: the RowData interface
\* What a caller constructs rows from: a bare name, and a field whose
\* lower-cased key is an attribute the row already has.
RowInputs ==
  {[name |-> "A", keys |-> <<>>, data |-> EmptyDict],
   [name |-> "A", keys |-> <<"Name">>, data |-> [k \in {"Name"} |-> Num(1)]]}

\* What a caller may pass where a row is expected.
Candidates == DOMAIN heap \cup {None, NonRow}

Op(op, who, arg) == [op |-> op, who |-> who, arg |-> arg, line |-> EmptyLine]

InitRow ==
  /\ heap = <<>>
  /\ rows = <<>>
  /\ row_tree = NoTree
  /\ pc = "api"
  /\ err = ""
  /\ nlines = 0
  /\ depths = <<>>
  /\ last = NoOp
  /\ ret = NoRet
  /\ nops = 0
  /\ calls = <<>>
  /\ parents_default = <<>>
  /\ timings = <<>>
  /\ body = EmptyDict
  /\ header = EmptyDict

\* RowData(name, **data)
ApiNew ==
  /\ Len(heap) < MaxApiRows
  /\ \E in \in RowInputs :
       LET made == NewRowData(in.name, in.keys, in.data) IN
       /\ heap' = IF made.ok THEN Append(heap, made.row) ELSE heap
       /\ err' = made.error
       /\ last' = Op("new", IF made.ok THEN Len(heap) + 1 ELSE None, None)
  /\ UNCHANGED <<rows, row_tree, pc, nlines, depths, ret, nops, header, body,
                 timings, parents_default, calls>>

\* self.parent = parent
ApiSetParent ==
  /\ nops < MaxOps
  /\ \E self \in DOMAIN heap, parent \in Candidates :
       LET r == SetParent(heap, self, parent) IN
       /\ heap' = r.h
       /\ err' = r.error
       /\ last' = Op("set_parent", self, parent)
  /\ nops' = nops + 1
  /\ UNCHANGED <<rows, row_tree, pc, nlines, depths, ret, header, body,
                 timings, parents_default, calls>>

\* self.add_child(child)
ApiAddChild ==
  /\ nops < MaxOps
  /\ \E self \in DOMAIN heap, child \in Candidates :
       LET r == AddChild(heap, self, child) IN
       /\ heap' = r.h
       /\ err' = r.error
       /\ last' = Op("add_child", self, child)
  /\ nops' = nops + 1
  /\ UNCHANGED <<rows, row_tree, pc, nlines, depths, ret, header, body,
                 timings, parents_default, calls>>

\* RowData.set_child_parent_relation(child, parent)
ApiSetRelation ==
  /\ nops < MaxOps
  /\ \E child \in DOMAIN heap, parent \in Candidates :
       LET r == SetChildParentRelation(heap, child, parent) IN
       /\ heap' = r.h
       /\ err' = r.error
       /\ last' = Op("set_relation", child, parent)
  /\ nops' = nops + 1
  /\ UNCHANGED <<rows, row_tree, pc, nlines, depths, ret, header, body,
                 timings, parents_default, calls>>

NextRow ==
  \/ ApiNew
  \/ ApiSetParent
  \/ ApiAddChild
  \/ ApiSetRelation

SpecRow == InitRow /\ [][NextRow]_vars

\* ------------------------- SpecDict: one parse_lines call, then as_dict
\* row.as_dict() on a row of the parser, after parse_lines returned or
\* raised.
RowAsDict ==
  /\ pc \in {"returned", "raised"}
  /\ \E r \in Range(rows) :
       /\ heap' = AsDictHeap(heap, r)
       /\ ret' = [op |-> "as_dict", who |-> r, val |-> AsDictValue(heap, r)]
       /\ last' = Op("as_dict", r, None)
  /\ UNCHANGED <<rows, row_tree, pc, err, nlines, depths, nops, header, body,
                 timings, parents_default, calls>>

\* parser.as_dict(), after parse_lines returned or raised.
ParserAsDict ==
  /\ pc \in {"returned", "raised"}
  /\ heap' = ParserAsDictHeap(heap, rows)
  /\ ret' = [op |-> "parser_as_dict", who |-> None,
             val |-> ParserAsDictValue(heap, rows)]
  /\ last' = Op("parser_as_dict", None, None)
  /\ UNCHANGED <<rows, row_tree, pc, err, nlines, depths, nops, header, body,
                 timings, parents_default, calls>>

NextDict ==
  \/ Call
  \/ MatchRow
  \/ Return
  \/ RowAsDict
  \/ ParserAsDict

SpecDict == Init /\ [][NextDict]_vars

\* ------------------------ SpecLookup: one parse_lines call, then lookups
\* Keys a caller looks up in the parser: a row name, as it is and in other
\* case.
ParserKeys == {"A B", "a b", "max", "Max"}

\* Keys a caller looks up in a row: attributes and row names, as they are
\* and in other case.
RowKeys == {"name", "Name", "max", "Max", "A B", "a b", "parent", "children"}

Got(op, who, r) == [op |-> op, who |-> who, val |-> r]

\* parser[key], after parse_lines returned or raised.
ApiParserGetItem ==
  /\ pc \in {"returned", "raised"}
  /\ \E key \in ParserKeys :
       /\ ret' = Got("parser_getitem", None, ParserGetItem(heap, rows, key))
       /\ last' = Op("parser_getitem", None, key)
  /\ UNCHANGED <<heap, rows, row_tree, pc, err, nlines, depths, nops, header,
                 body, timings, parents_default, calls>>

\* row[key] on a row of the parser, after parse_lines returned or raised.
ApiRowGetItem ==
  /\ pc \in {"returned", "raised"}
  /\ \E r \in Range(rows), key \in RowKeys :
       /\ ret' = Got("row_getitem", r, RowGetItem(heap, r, key))
       /\ last' = Op("row_getitem", r, key)
  /\ UNCHANGED <<heap, rows, row_tree, pc, err, nlines, depths, nops, header,
                 body, timings, parents_default, calls>>

NextLookup ==
  \/ Call
  \/ MatchRow
  \/ Return
  \/ ApiParserGetItem
  \/ ApiRowGetItem

SpecLookup == Init /\ [][NextLookup]_vars

\* --------------------------- SpecSummary: COSMO_Run_yu(folder, name)
\* The header lines of a YUTIMING file that get_yutiming_header_data reads:
\* with the setup time, without it.
HeaderFiles ==
  {<<[raw |-> <<" ", "Time", " ", "for", " ", "the", " ", "setup", " ", "of",
               " ", "the", " ", "model", ":", " ", " ">>, nums |-> <<7>>],
     [raw |-> <<>>, nums |-> <<>>]>>,
   <<[raw |-> <<"Time", " ", "for", " ", "the", " ", "setup", ":", " ">>,
      nums |-> <<7>>],
     [raw |-> <<"-", "-", "-">>, nums |-> <<>>]>>}

\* The tokens of the labels the body of a YUTIMING file may bear.
BodyLabels ==
  <<<<"Dyn.", " ", "Computations">>, <<"Cpp", " ", "dycore", " ", "step">>,
    <<"Cpp", " ", "dycore", " ", "copy", " ", "in">>,
    <<"Cpp", " ", "dycore", " ", "copy", " ", "out">>,
    <<"Phy.", " ", "Computations">>, <<"Add.", " ", "Computations">>,
    <<"Input">>, <<"Output">>>>

\* The line of the i-th label at depth d, its max column being 2^(i-1).
BodyLine(i, d) ==
  [raw |-> Spaces(Len(subcategory_indention) * d) \o BodyLabels[i] \o <<" ", " ">>,
   nums |-> <<i, i, 2 ^ (i - 1), 4 * i>>]

RECURSIVE BodyFile(_, _)
\* The body lines a choice of "absent", "root" or "child" per label gives,
\* from the i-th label on.
BodyFile(c, i) ==
  IF i > Len(BodyLabels) THEN <<>>
  ELSE (CASE c[i] = "absent" -> <<>>
          [] c[i] = "root" -> <<BodyLine(i, 0)>>
          [] c[i] = "child" -> <<BodyLine(i, 1)>>)
       \o BodyFile(c, i + 1)

BodyFiles ==
  {BodyFile(c, 1) : c \in [1..Len(BodyLabels) -> {"absent", "root", "child"}]}

InitSummary ==
  /\ heap = <<>>
  /\ rows = <<>>
  /\ row_tree = NoTree
  /\ pc = "slurmlog"
  /\ err = ""
  /\ nlines = 0
  /\ depths = <<>>
  /\ last = NoOp
  /\ ret = NoRet
  /\ nops = 0
  /\ calls = <<>>
  /\ parents_default = <<>>
  /\ header = EmptyDict
  /\ body = EmptyDict
  /\ timings = <<>>

\* The constructor moves on to `at`, or raises.
Goto(e, at) ==
  /\ err' = e
  /\ pc' = IF e = "" THEN at ELSE "raised"

\* if slurmlog: the ("total", end - start) of the slurm log.
ReadSlurmLog ==
  /\ pc = "slurmlog"
  /\ \E seconds \in {60} : timings' = Append(timings, <<"total", Num(seconds)>>)
  /\ Goto("", "cosmolog")
  /\ UNCHANGED <<heap, rows, row_tree, nlines, depths, last, ret, nops,
                 header, body, parents_default, calls>>

\* if cosmolog: the build information goes to metadata, not to timings.
ReadCosmoLog ==
  /\ pc = "cosmolog"
  /\ Goto("", "header")
  /\ UNCHANGED <<heap, rows, row_tree, nlines, depths, last, ret, nops,
                 header, body, timings, parents_default, calls>>

\* header = get_yutiming_header_data(...); val = header[setup_key]
ReadHeader ==
  /\ pc = "header"
  /\ \E lines \in HeaderFiles :
       LET h == get_yutiming_header_data(lines) IN
       /\ header' = h
       /\ IF setup_key \in DOMAIN h
          THEN /\ timings' = Append(timings, <<"setup", h[setup_key]>>)
               /\ Goto("", "body")
          ELSE /\ timings' = timings
               /\ Goto("KeyError", "body")
  /\ UNCHANGED <<heap, rows, row_tree, nlines, depths, last, ret, nops, body,
                 parents_default, calls>>

\* body = get_yutiming_body_data(...)
ReadBody ==
  /\ pc = "body"
  /\ \E lines \in BodyFiles :
       LET b == get_yutiming_body_data(lines) IN
       /\ heap' = b.heap
       /\ rows' = b.rows
       /\ body' = b.val
       /\ Goto(b.error, "dyn")
  /\ UNCHANGED <<row_tree, nlines, depths, last, ret, nops, header, timings,
                 parents_default, calls>>

\* The loop over dyn and the append of ("dynamics max", val).
Dynamics ==
  /\ pc = "dyn"
  /\ LET s == SumMax(body, dyn, 0) IN
     /\ timings' = IF s.error = "" THEN Append(timings, <<"dynamics max", s.val>>)
                   ELSE timings
     /\ Goto(s.error, "phy")
  /\ UNCHANGED <<heap, rows, row_tree, nlines, depths, last, ret, nops,
                 header, body, parents_default, calls>>

Physics ==
  /\ pc = "phy"
  /\ LET m == BodyMax(body, "Phy. Computations") IN
     /\ timings' = IF m.error = "" THEN Append(timings, <<"physics max", m.val>>)
                   ELSE timings
     /\ Goto(m.error, "add")
  /\ UNCHANGED <<heap, rows, row_tree, nlines, depths, last, ret, nops,
                 header, body, parents_default, calls>>

AddComp ==
  /\ pc = "add"
  /\ LET m == BodyMax(body, "Add. Computations") IN
     /\ timings' = IF m.error = "" THEN Append(timings, <<"add.comp. max", m.val>>)
                   ELSE timings
     /\ Goto(m.error, "io")
  /\ UNCHANGED <<heap, rows, row_tree, nlines, depths, last, ret, nops,
                 header, body, parents_default, calls>>

\* The loop over io and the append of ("io max", val): the object is built.
InputOutput ==
  /\ pc = "io"
  /\ LET s == SumMax(body, io, 0) IN
     /\ timings' = IF s.error = "" THEN Append(timings, <<"io max", s.val>>)
                   ELSE timings
     /\ Goto(s.error, "built")
  /\ UNCHANGED <<heap, rows, row_tree, nlines, depths, last, ret, nops,
                 header, body, parents_default, calls>>

NextSummary ==
  \/ ReadSlurmLog
  \/ ReadCosmoLog
  \/ ReadHeader
  \/ ReadBody
  \/ Dynamics
  \/ Physics
  \/ AddComp
  \/ InputOutput

SpecSummary == InitSummary /\ [][NextSummary]_vars

\* ---------------------- SpecParents: one parse_lines call, get_parents
\* Elements a caller appends to a list it holds.
MaxAppends == 1

\* row.get_parents() on a row of the parser.
ApiGetParents ==
  /\ pc \in {"returned", "raised"}
  /\ \E r \in Range(rows) :
       LET g == get_parents(heap, r, parents_default) IN
       /\ ret' = Got("get_parents", r, g)
       /\ parents_default' = g.dflt
       /\ last' = Op("get_parents", r, None)
  /\ UNCHANGED <<heap, rows, row_tree, pc, err, nlines, depths, nops,
                 header, body, timings, calls>>

\* The caller appends a row to the list the last get_parents() returned,
\* that list being the object the default is bound to.
CallerAppend ==
  /\ ret.op = "get_parents"
  /\ ret.val.shared
  /\ Len(parents_default) < MaxAppends
  /\ \E x \in Range(rows) :
       /\ parents_default' = Append(parents_default, x)
       /\ last' = Op("append", None, x)
  /\ ret' = NoRet
  /\ UNCHANGED <<heap, rows, row_tree, pc, err, nlines, depths, nops,
                 header, body, timings, calls>>

NextParents ==
  \/ Call
  \/ MatchRow
  \/ Return
  \/ ApiGetParents
  \/ CallerAppend

SpecParents == Init /\ [][NextParents]_vars

\* ------------------------ SpecCalls: parse_lines calls on one parser
\* Calls of parse_lines on one parser.
MaxCalls == 2

\* parse_lines is called again on the parser, after a call that returned
\* or raised: self.rows is kept, the local row_tree starts as None.
CallAgain ==
  /\ pc \in {"returned", "raised"}
  /\ Len(calls) < MaxCalls
  /\ pc' = "loop"
  /\ row_tree' = StartTree(row_tree)
  /\ err' = ""
  /\ nlines' = 0
  /\ depths' = <<>>
  /\ calls' = Append(calls, Len(rows))
  /\ last' = [op |-> "call", who |-> None, arg |-> None, line |-> EmptyLine]
  /\ UNCHANGED <<heap, rows, ret, nops, header, body, timings, parents_default>>

NextCalls ==
  \/ Call
  \/ MatchRow
  \/ Return
  \/ CallAgain

SpecCalls == Init /\ [][NextCalls]_vars

\* ------------------------------------------------ claims on parse_lines
\* A step of the loop that matched a line and made a row; depths holds the
\* depths of the rows matched so far in the call.
RowStep == pc = "loop" /\ Len(depths') = Len(depths) + 1

\* A step of the loop that took a blank or a non-matching line.
SkipStep == pc = "loop" /\ nlines' = nlines + 1 /\ depths' = depths

\* The depth of the line a RowStep takes, and the row it makes.
StepDepth == Last(depths')

StepRow == Len(heap) + 1

\* C1: a matched row that is not the first of the call and whose depth
\* exceeds the length of the ancestor stack makes the call fail with the
\* skip error, after which no line is processed; a depth of at most the
\* stack's length raises no skip error.
C1_SkipError ==
  [][/\ (RowStep /\ depths # <<>> /\ StepDepth > Len(row_tree.list))
          => (pc' = "raised" /\ err' = "skip")
     /\ (RowStep /\ depths # <<>> /\ StepDepth <= Len(row_tree.list))
          => err' # "skip"
     /\ pc = "raised"
          => (nlines' = nlines /\ rows' = rows /\ depths' = depths
              /\ heap' = heap /\ pc' = "raised")]_vars

C1_Witness ==
  /\ pc = "raised"
  /\ err = "skip"
  /\ Len(rows) >= 2
  /\ last.op = "row"
  /\ last.arg > Len(row_tree.list)

\* C2: a matched row that is not the first and has depth d at most the
\* stack's length: the stack becomes its first d entries followed by the
\* row; for d > 0 the row's parent is the entry at index d-1 (the d-th) and
\* the row is appended as that entry's last child; for d = 0 the row has no
\* parent.  A depth-0 row followed by a depth-1 row is one root with
\* exactly one child.
C2_Attach ==
  [][/\ (RowStep /\ depths # <<>> /\ StepDepth <= Len(row_tree.list)) =>
          LET d == StepDepth
              stack == row_tree.list
          IN /\ pc' = "loop"
             /\ row_tree' = Tree(Append(SubSeq(stack, 1, d), StepRow))
             /\ Len(row_tree'.list) = d + 1
             /\ rows' = Append(rows, StepRow)
             /\ d > 0 =>
                  /\ heap'[StepRow].parent = stack[d]
                  /\ heap'[stack[d]].children =
                       Append(heap[stack[d]].children, StepRow)
                  /\ \A r \in DOMAIN heap :
                       /\ heap'[r].parent = heap[r].parent
                       /\ r # stack[d] => heap'[r].children = heap[r].children
             /\ d = 0 =>
                  /\ heap'[StepRow].parent = None
                  /\ \A r \in DOMAIN heap :
                       /\ heap'[r].parent = heap[r].parent
                       /\ heap'[r].children = heap[r].children
             /\ heap'[StepRow].children = <<>>
     /\ (RowStep /\ depths = <<0>> /\ StepDepth = 1) =>
          /\ RootRows(heap', rows') = <<1>>
          /\ heap'[1].children = <<2>>
          /\ heap'[2].parent = 1]_vars

\* A third row of depth 1 under a stack of two: the stack is cut to the
\* root and the row becomes the root's second child.
C2_Witness ==
  /\ pc = "loop"
  /\ last.op = "row"
  /\ last.arg = 1
  /\ row_tree = Tree(<<1, 3>>)
  /\ heap[1].children = <<2, 3>>
  /\ heap[3].parent = 1

\* C3: the first matched row of a call is a root whatever its depth: no
\* error, no parent, and the stack becomes that row alone; as the only
\* matched line it is the sole root.
C3_FirstRow ==
  [][/\ (RowStep /\ depths = <<>>) =>
          /\ pc' = "loop"
          /\ err' = ""
          /\ row_tree' = Tree(<<StepRow>>)
          /\ heap'[StepRow].parent = None
          /\ heap'[StepRow].children = <<>>
     /\ (pc' = "returned" /\ Len(depths') = 1) =>
          /\ Len(rows') = 1
          /\ RootRows(heap', rows') = rows']_vars

\* A first line indented by two levels or more, parsed alone.
C3_Witness ==
  /\ pc = "returned"
  /\ Len(depths) = 1
  /\ depths[1] >= 2
  /\ RootRows(heap, rows) = <<1>>

\* The matched lines of the call so far, without the lines between them,
\* each rewritten from what was read off it: its depth, its name, its
\* numeric columns.
MatchedAlone ==
  [i \in 1..Len(depths) |->
     [raw |-> Spaces(Len(subcategory_indention) * depths[i])
                \o <<heap[rows[i]].name, " ">>,
      nums |-> [j \in 1..Len(data_col_names) |->
                  heap[rows[i]].attrs[data_col_names[j]].v]]]

\* C5: blank and non-matching lines have no effect: a step of the loop
\* that takes one leaves the rows, every row's links, the ancestor stack
\* and the outcome as they were, and whatever such lines were taken, rows,
\* links, stack and outcome are those of parsing the matched lines alone.
C5_SkippedLinesNoEffect ==
  [][/\ SkipStep =>
          /\ heap' = heap
          /\ rows' = rows
          /\ row_tree' = row_tree
          /\ err' = err
          /\ pc' = "loop"
     /\ pc = "loop" =>
          /\ ParseState(heap', rows', row_tree', err')
               = parse_lines(<<>>, <<>>, MatchedAlone')
          /\ (pc' = "raised") = (err' # "")]_vars

\* A blank or non-matching line taken under a stack of two rows.
C5_Witness ==
  /\ pc = "loop"
  /\ last.op \in {"empty", "nomatch"}
  /\ nlines > Len(depths)
  /\ Len(row_tree.list) = 2
  /\ heap[2].parent = 1

\* C6: when parse_lines fails with the skip error the offending row is
\* the last element of rows, behind the rows matched before it, which keep
\* their links; it has no parent and no children, so it is among the roots.
C6_SkipRowAppended ==
  [][(RowStep /\ err' = "skip") =>
       /\ rows' = Append(rows, StepRow)
       /\ Len(heap') = Len(heap) + 1
       /\ \A r \in DOMAIN heap : heap'[r] = heap[r]
       /\ heap'[StepRow].name = NormName(last'.line.raw)
       /\ heap'[StepRow].parent = None
       /\ heap'[StepRow].children = <<>>
       /\ Last(RootRows(heap', rows')) = StepRow
       /\ Last(row_names(heap', rows')) = heap'[StepRow].name]_vars

\* The skip error on the third row, the second being a child of the first.
C6_Witness ==
  /\ pc = "raised"
  /\ err = "skip"
  /\ Len(rows) = 3
  /\ heap[2].parent = 1
  /\ heap[3].parent = None
  /\ Last(RootRows(heap, rows)) = 3

\* ---------------------------------------- claims on the RowData interface
RECURSIVE AncestorsUp(_, _, _)
\* The rows reached from r over at most n parent links.
AncestorsUp(h, r, n) ==
  IF n = 0 \/ h[r].parent = None THEN {}
  ELSE {h[r].parent} \cup AncestorsUp(h, h[r].parent, n - 1)

RECURSIVE DescendantsDown(_, _, _)
\* The rows reached from r over at most n children lists.
DescendantsDown(h, r, n) ==
  IF n = 0 THEN {}
  ELSE Range(h[r].children)
         \cup UNION {DescendantsDown(h, c, n - 1) : c \in Range(h[r].children)}

\* C4: the parent/child relation is a forest: no row is its own ancestor
\* over parent links, nor its own descendant over children lists.
C4_Forest ==
  \A r \in DOMAIN heap :
    /\ r \notin AncestorsUp(heap, r, Len(heap))
    /\ r \notin DescendantsDown(heap, r, Len(heap))

\* A call of the interface, as last records it after the step.
Called(op) == nops' = nops + 1 /\ last'.op = op

\* C7: a second assignment of a row's parent always fails and leaves the
\* parent as first set; an assignment that succeeds is read back as the
\* row assigned, and the first assignment of a row succeeds unless that row
\* has self as its parent; a parent that is no row fails and leaves the
\* parent as it was.
C7_ParentOnce ==
  [][Called("set_parent") =>
       LET self == last'.who
           parent == last'.arg
       IN /\ heap[self].parent # None => (err' # "" /\ heap' = heap)
          /\ err' = "" =>
               /\ IsRow(heap, parent)
               /\ heap'[self].parent = parent
          /\ (heap[self].parent = None /\ IsRow(heap, parent)
                /\ heap[parent].parent # self) =>
               /\ err' = ""
               /\ heap'[self].parent = parent
          /\ ~IsRow(heap, parent) =>
               /\ err' # ""
               /\ heap' = heap]_vars

\* A second assignment, refused, the parent being another row than the
\* candidate.
C7_Witness ==
  /\ last.op = "set_parent"
  /\ err = "parent set twice"
  /\ heap[last.who].parent # None
  /\ heap[last.who].parent # last.arg
  /\ IsRow(heap, last.arg)

\* C8 as stated: add_child fails whenever the child is already among
\* self's children, and leaves the children as they were.
C8_DuplicateRejected ==
  [][(Called("add_child") /\ last'.arg \in Range(heap[last'.who].children))
       => (err' # "" /\ heap' = heap)]_vars

\* C8, amended: add_child fails exactly when the child is no row or self
\* is among the child's children, and then changes nothing; otherwise it
\* appends the child, also when the child is among self's children already.
C8_CircularGuard ==
  [][Called("add_child") =>
       LET self == last'.who
           child == last'.arg
       IN /\ (err' # "") =
               (~IsRow(heap, child) \/ self \in Range(heap[child].children))
          /\ err' # "" => heap' = heap
          /\ err' = "" =>
               heap' = [heap EXCEPT ![self].children = Append(@, child)]]_vars

\* A child added a second time, with success.
C8_Witness ==
  /\ last.op = "add_child"
  /\ err = ""
  /\ Cardinality({i \in 1..Len(heap[last.who].children) :
                    heap[last.who].children[i] = last.arg}) >= 2

\* ------------------------------------------------------ claims on as_dict
\* The field mapping a row was constructed with, as its attributes keep it.
Fields(h, r) == [k \in Range(data_col_names) |-> h[r].attrs[Lower(k)]]

AsDictOf(v) == [tag |-> "dict", v |-> v]

\* C9: a row's name and field mapping (data) are fixed at construction: no
\* step changes them; only parent and children change, and children only
\* grows.  (Stated for the steps after a parse_lines call that returned.)
C9_NameAndFieldsFixed ==
  [][pc = "returned" => \A r \in DOMAIN heap :
       /\ heap'[r].name = heap[r].name
       /\ heap'[r].data = heap[r].data
       /\ Len(heap'[r].children) >= Len(heap[r].children)
       /\ SubSeq(heap'[r].children, 1, Len(heap[r].children))
            = heap[r].children]_vars

\* C10 as stated: as_dict() of a row is its field mapping united with one
\* entry per child, keyed by the child's name and valued by that child's
\* own as_dict(); the parser's as_dict() maps each root's name to that
\* root's as_dict().  (Stated for a parse_lines call that returned.)
C10_OneEntryPerChild ==
  /\ (pc = "returned" /\ ret.op = "as_dict") =>
       LET f == Fields(heap, ret.who)
           cs == Range(heap[ret.who].children)
       IN /\ DOMAIN ret.val = DOMAIN f \cup {heap[c].name : c \in cs}
          /\ \A k \in DOMAIN f : ret.val[k] = f[k]
          /\ \A c \in cs : ret.val[heap[c].name] = AsDictOf(AsDictValue(heap, c))
  /\ (pc = "returned" /\ ret.op = "parser_as_dict") =>
       LET roots == Range(RootRows(heap, rows)) IN
       /\ DOMAIN ret.val = {heap[r].name : r \in roots}
       /\ \A r \in roots : ret.val[heap[r].name] = AsDictOf(AsDictValue(heap, r))

\* The index of the last row of rs that bears name n.
LastIndexNamed(h, rs, n) ==
  CHOOSE i \in 1..Len(rs) :
    /\ h[rs[i]].name = n
    /\ \A j \in 1..Len(rs) : h[rs[j]].name = n => j <= i

RECURSIVE Nested(_, _)
\* The field mapping of r overridden by one entry per child name, valued
\* by the nested mapping of the last child of that name.
Nested(h, r) ==
  LET f == Fields(h, r)
      cs == h[r].children
      names == {h[c].name : c \in Range(cs)}
  IN [k \in DOMAIN f \cup names |->
        IF k \in names
        THEN AsDictOf(Nested(h, cs[LastIndexNamed(h, cs, k)]))
        ELSE f[k]]

\* C10, amended: as_dict() of a row without children is exactly its field
\* mapping; with children it is the field mapping overridden by one entry
\* per child name, valued by the as_dict() of the last child of that name,
\* recursively; the parser's as_dict() maps each root name to the
\* as_dict() of the last root of that name; a repeated call returns an
\* equal result.
C10_AsDict ==
  /\ ret.op = "as_dict" =>
       /\ ret.val = Nested(heap, ret.who)
       /\ heap[ret.who].children = <<>> => ret.val = Fields(heap, ret.who)
       /\ AsDictValue(heap, ret.who) = ret.val
  /\ ret.op = "parser_as_dict" =>
       LET roots == RootRows(heap, rows) IN
       /\ ret.val = [n \in {heap[r].name : r \in Range(roots)} |->
                       AsDictOf(Nested(heap, roots[LastIndexNamed(heap, roots, n)]))]
       /\ ParserAsDictValue(heap, rows) = ret.val

\* as_dict() of a root whose child has a child: two levels of nesting.
C10_Witness ==
  /\ ret.op = "as_dict"
  /\ ret.who = 1
  /\ Len(rows) = 3
  /\ heap[2].parent = 1
  /\ heap[3].parent = 2
  /\ ret.val[heap[2].name].v[heap[3].name] = AsDictOf(Fields(heap, 3))

\* ------------------------------------------------------ claims on lookups
\* The rows of the parser that have no parent.
Parentless == {r \in Range(rows) : heap[r].parent = None}

\* The positions in rows of the rows that have no parent.
ParentlessAt == {i \in 1..Len(rows) : heap[rows[i]].parent = None}

NamedAttrs ==
  {"name", "parent", "children"} \cup {Lower(k) : k \in Range(data_col_names)}

\* The value the row r holds under the attribute a.
AttrOf(r, a) ==
  CASE a = "name" -> [tag |-> "str", v |-> heap[r].name]
    [] a = "parent" -> [tag |-> "row", v |-> heap[r].parent]
    [] a = "children" -> [tag |-> "list", v |-> heap[r].children]
    [] OTHER -> Fields(heap, r)[a]

\* C12: row[key] returns the row's own attribute whose name equals the key
\* up to case, whenever there is one, also when a child bears the key as
\* its name; only when there is none it returns the child whose name is the
\* key (the last of that name); when neither matches it fails with
\* IndexError, which is not the ValueError of the relationship and
\* construction errors.
C12_RowLookup ==
  ret.op = "row_getitem" =>
    LET r == ret.who
        key == last.arg
        got == ret.val
        named == {c \in Range(heap[r].children) : heap[c].name = key}
    IN IF Lower(key) \in NamedAttrs
       THEN /\ got.error = ""
            /\ got.val = AttrOf(r, Lower(key))
       ELSE IF named # {}
       THEN /\ got.error = ""
            /\ got.val.tag = "row"
            /\ got.val.v \in named
            /\ \A c \in named : c <= got.val.v
       ELSE /\ got.error = "IndexError"
            /\ got.error # "ValueError"
            /\ got.val.tag = "none"

\* A key that names both a field of the row and a child of it: the field
\* is returned.
C12_Witness ==
  /\ ret.op = "row_getitem"
  /\ last.arg = "max"
  /\ \E c \in Range(heap[ret.who].children) : heap[c].name = "max"
  /\ ret.val.error = ""
  /\ ret.val.val.tag = "num"

\* ------------------------------------------------- claims on the summary
TimingOrder ==
  <<"total", "setup", "dynamics max", "physics max", "add.comp. max", "io max">>

\* The body labels the timing at each position of TimingOrder refers to.
LabelsOf ==
  <<{}, {}, Range(dyn), {"Phy. Computations"}, {"Add. Computations"}, Range(io)>>

InForest(label) == \E r \in Range(rows) : heap[r].name = label

\* The max column of the root row that bears the label.
RootMax(label) ==
  LET r == CHOOSE x \in Range(rows) :
             heap[x].name = label /\ heap[x].parent = None
  IN heap[r].attrs["max"].v

RECURSIVE SumOver(_)
SumOver(S) ==
  IF S = {} THEN 0
  ELSE LET l == CHOOSE x \in S : TRUE IN RootMax(l) + SumOver(S \ {l})

\* C13: the timings are appended in the order total, setup, dynamics max,
\* physics max, add.comp. max, io max, each body timing being the sum of
\* the max columns of its labels; when the header lacks the setup key or a
\* label of a timing is borne by no row of the body forest, that timing is
\* never appended (no zero stands in for it), the constructor raises a
\* KeyError and no object is built.
C13_Assembly ==
  /\ [i \in 1..Len(timings) |-> timings[i][1]]
       = SubSeq(TimingOrder, 1, Len(timings))
  /\ pc = "built" => Len(timings) = Len(TimingOrder)
  /\ \A k \in 1..Len(TimingOrder) :
       /\ (k <= Len(timings) /\ LabelsOf[k] # {}) =>
            /\ \A l \in LabelsOf[k] : InForest(l)
            /\ timings[k][2] = Num(SumOver(LabelsOf[k]))
       /\ (pc \in {"raised", "built"} /\ setup_key \in DOMAIN header
             /\ \E l \in LabelsOf[k] : ~InForest(l)) =>
            /\ pc = "raised"
            /\ err = "KeyError"
            /\ Len(timings) < k
  /\ Len(timings) >= 2 => timings[2][2] = header[setup_key]
  /\ (pc \notin {"slurmlog", "cosmolog", "header"}
        /\ setup_key \notin DOMAIN header) =>
       /\ pc = "raised"
       /\ err = "KeyError"
       /\ Len(timings) = 1

\* The dynamics labels are roots of the body and "Phy. Computations" is
\* absent: the constructor raises after three timings.
C13_Witness ==
  /\ pc = "raised"
  /\ err = "KeyError"
  /\ Len(timings) = 3
  /\ timings[3] = <<"dynamics max", Num(15)>>
  /\ ~InForest("Phy. Computations")
  /\ InForest("Input")

\* --------------------------------------------------- claims on get_parents
RECURSIVE RootFirst(_, _)
\* The ancestors of r, the furthest first, the parent of r last.
RootFirst(h, r) ==
  IF h[r].parent = None THEN <<>>
  ELSE Append(RootFirst(h, h[r].parent), h[r].parent)

\* C14: get_parents() returns the ancestors of the row from the furthest
\* root down to its parent, nothing for a root, whatever calls of
\* get_parents were made before and whatever became of the lists they
\* returned: each call starts from an empty accumulator of its own.
\* (Stated for a parse_lines call that returned.)
C14_FreshAccumulator ==
  (pc = "returned" /\ ret.op = "get_parents") =>
    /\ ret.val.error = ""
    /\ ret.val.list = RootFirst(heap, ret.who)

\* ------------------------------------------------------- claims on depth
RECURSIVE LeadingSpaces(_)
\* The number of space characters in front of the first other character.
LeadingSpaces(raw) ==
  IF raw # <<>> /\ Head(raw) = " " THEN 1 + LeadingSpaces(Tail(raw)) ELSE 0

RECURSIVE UnitPrefixes(_, _)
\* How many times in a row the unit prefixes raw.
UnitPrefixes(raw, unit) ==
  IF Len(raw) >= Len(unit) /\ SubSeq(raw, 1, Len(unit)) = unit
  THEN 1 + UnitPrefixes(SubSeq(raw, Len(unit) + 1, Len(raw)), unit)
  ELSE 0

\* C15: the depth parse_lines computes for a matched row is the number of
\* indentation units that prefix the raw name capture: with the unit of two
\* spaces, 2k and 2k+1 leading spaces both give depth k.
C15_Depth ==
  last.op = "row" =>
    LET n == LeadingSpaces(last.line.raw) IN
    /\ last.arg = UnitPrefixes(last.line.raw, subcategory_indention)
    /\ \E k \in 0..n : n \in {2 * k, 2 * k + 1} /\ last.arg = k
    /\ Last(depths) = last.arg

\* A first row behind five spaces: depth 2.
C15_Witness ==
  /\ last.op = "row"
  /\ LeadingSpaces(last.line.raw) = 5
  /\ last.arg = 2
  /\ row_tree = Tree(<<1>>)

\* --------------------------------------------- claims on the ancestor stack
\* C16: while parse_lines runs without error and once a row was matched,
\* the ancestor stack is the path from a root to the most recently matched
\* row: its first entry has no parent, the parent of each later entry is
\* the entry before it, its last entry is the last of rows, and the entry
\* at index i (counted from 0) has exactly i ancestors.
C16_StackIsPath ==
  (pc \in {"loop", "returned"} /\ depths # <<>>) =>
    LET stack == row_tree.list IN
    /\ ~row_tree.isNone
    /\ stack # <<>>
    /\ heap[stack[1]].parent = None
    /\ \A i \in 2..Len(stack) : heap[stack[i]].parent = stack[i - 1]
    /\ Last(stack) = Last(rows)
    /\ \A i \in 1..Len(stack) : Len(RootFirst(heap, stack[i])) = i - 1
    /\ Len(stack) <= Last(depths) + 1
    /\ Len(depths) > 1 => Len(stack) = Last(depths) + 1

\* A second row of depth 1 under the root: the stack is cut to the root and
\* the earlier child, off the stack, keeps its parent.
C16_Witness ==
  /\ pc = "loop"
  /\ depths = <<0, 1, 1>>
  /\ row_tree = Tree(<<1, 3>>)
  /\ heap[2].parent = 1
  /\ heap[2].children = <<>>

\* ------------------------------------------ claims on the links of a parse
\* The position of the row r in rows.
RowPos(r) == CHOOSE i \in 1..Len(rows) : rows[i] = r

\* How often the row r occurs among the children of p.
Occurrences(p, r) ==
  Cardinality({i \in 1..Len(heap[p].children) : heap[p].children[i] = r})

\* C17: during and after a parse_lines call on a fresh parser, completed or
\* aborted by the skip error, the parent links and the children lists
\* agree: r.parent is p exactly when r occurs in p.children, where it then
\* occurs once; no row is a child of two rows; the children of a row are in
\* file order and behind their parent in rows.
C17_LinksAgree ==
  /\ Len(rows) = Len(heap)
  /\ \A i, j \in 1..Len(rows) : rows[i] = rows[j] => i = j
  /\ \A r \in Range(rows) :
       /\ heap[r].parent \in Range(rows) \cup {None}
       /\ Range(heap[r].children) \subseteq Range(rows)
  /\ \A r, p \in Range(rows) :
       /\ (heap[r].parent = p) = (Occurrences(p, r) > 0)
       /\ Occurrences(p, r) <= 1
       /\ Occurrences(p, r) > 0 => RowPos(p) < RowPos(r)
  /\ \A r \in Range(rows) :
       Cardinality({p \in Range(rows) : Occurrences(p, r) > 0}) <= 1
  /\ \A p \in Range(rows) :
       \A i, j \in 1..Len(heap[p].children) :
         i < j => RowPos(heap[p].children[i]) < RowPos(heap[p].children[j])

\* A completed parse that gave the root two children.
C17_Witness ==
  /\ pc = "returned"
  /\ Len(rows) = 3
  /\ heap[1].children = <<2, 3>>
  /\ heap[2].parent = 1
  /\ heap[3].parent = 1

\* ------------------------------------ claims on set_child_parent_relation
\* C18: set_child_parent_relation(child, parent) is all or nothing: when it
\* raises, the parent of child and the children of parent, and every other
\* link, are what they were before the call.
C18_AllOrNothing ==
  [][(Called("set_relation") /\ err' # "") => heap' = heap]_vars

\* ------------------------------------------- claims on the errors of a parse
\* C19: with data columns that collide with no attribute of a row, the
\* skip error is the only error a step of parse_lines raises: a row is
\* given a parent only in the step that creates it, while it has no parent
\* and no children, its parent being an earlier row that does not have it
\* as parent; a parent once set is never set again.
C19_OnlySkipError ==
  [][pc = "loop" =>
       /\ err' \in {"", "skip"}
       /\ (pc' = "raised") = (err' = "skip")
       /\ \A r \in DOMAIN heap : heap'[r].parent = heap[r].parent
       /\ \A r \in DOMAIN heap' \ DOMAIN heap :
            /\ r = StepRow
            /\ heap'[r].children = <<>>
            /\ heap'[r].parent # None =>
                 /\ heap'[r].parent \in DOMAIN heap
                 /\ heap[heap'[r].parent].parent # r
                 /\ r \notin Range(heap[heap'[r].parent].children)]_vars

\* A completed parse of three rows, each the child of the one before.
C19_Witness ==
  /\ pc = "returned"
  /\ err = ""
  /\ depths = <<0, 1, 2>>
  /\ heap[2].parent = 1
  /\ heap[3].parent = 2
  /\ heap[2].children = <<3>>

\* ------------------------------------------- claims on successive calls
\* C20: a second parse_lines call on a parser starts with the rows of the
\* first call and no ancestor stack; during it rows is the rows of the
\* first call, untouched, followed by the rows it creates, in order; its
\* first matched row is a root whatever its depth, and no row it creates is
\* linked to a row of the first call.
C20_SecondCall ==
  [][Len(calls') = 2 =>
       LET n == calls'[2] IN
       /\ Len(calls) = 1 =>
            /\ n = Len(rows)
            /\ rows' = rows
            /\ heap' = heap
            /\ row_tree'.isNone
       /\ SubSeq(rows', 1, n) = SubSeq(rows, 1, n)
       /\ \A r \in Range(SubSeq(rows, 1, n)) : heap'[r] = heap[r]
       /\ (RowStep /\ Len(calls) = 2) => rows' = Append(rows, StepRow)
       /\ (RowStep /\ Len(calls) = 2 /\ depths = <<>>) =>
            /\ err' = ""
            /\ heap'[StepRow].parent = None
            /\ row_tree' = Tree(<<StepRow>>)
       /\ \A i \in (n + 1)..Len(rows') :
            /\ heap'[rows'[i]].parent \notin Range(SubSeq(rows', 1, n))
            /\ \A c \in Range(heap'[rows'[i]].children) :
                 c \notin Range(SubSeq(rows', 1, n))]_vars

\* A first call that left a stack of two, and a second call whose first
\* row, of depth 1, is a root.
C20_Witness ==
  /\ Len(calls) = 2
  /\ calls[2] = 2
  /\ pc = "returned"
  /\ heap[2].parent = 1
  /\ Len(rows) = 3
  /\ depths = <<1>>
  /\ heap[3].parent = None
  /\ heap[1].children = <<2>>

=============================================================================
